---- MODULE Spec2Model ----
(***************************************************************************)
(* Client-side authentication of CineBrain-Links.                          *)
(*                                                                         *)
(*   Spec        the session coordinator, frontend/src/utils/auth.js:      *)
(*               initializeAuth, handleSuccessfulAuth, the two             *)
(*               onAuthStateChanged callbacks, the periodic token refresh, *)
(*               AuthService.login / logout.                               *)
(*   SpecGateway the request gateway, frontend/src/api/client.js, with the *)
(*               credential store (tokenManager) of                        *)
(*               frontend/src/utils/token.js.                              *)
(*   SpecProvider  the gateway with the AuthProvider of                   *)
(*               frontend/src/utils/token.js signing in and out over it.   *)
(*   SpecRetry   the retry interceptor of frontend/src/utils/auth.js.      *)
(*   SpecFair    Spec with every await of the startup and of a             *)
(*               reconciliation answered (liveness).                       *)
(*   SpecReconcile the session coordinator before the first tick of the   *)
(*               refresh timer.                                            *)
(*   SpecStartup the startup of a session nobody logs out of, every await  *)
(*               answered (liveness).                                      *)
(*   SpecRegister  the session coordinator with AuthService.register in   *)
(*               place of login.                                           *)
(*   SpecListeners the listener registry of frontend/src/utils/auth.js:   *)
(*               onAuthStateChange, its unsubscribe function and the       *)
(*               forEach that notifies.                                    *)
(*   SpecStore   tokenManager called over a localStorage that may throw.   *)
(*   SpecWarmup  the warmup pinger of frontend/src/utils/auth.js:          *)
(*               startWarmup, stopWarmup and their timers.                 *)
(*                                                                         *)
(* Every await of the source is a suspension point: the code between two   *)
(* awaits is one action.  The identity provider (Firebase) and the backend *)
(* are the environment: each of their answers is a nondeterministic        *)
(* outcome of the action that resumes the awaiting code.                   *)
(***************************************************************************)
EXTENDS Integers, Sequences, FiniteSets, TLC

VARIABLES
    \* ---- identity provider (firebase/auth) ----
    fbUser,                 \* auth.currentUser: "none" or a uid
    lastNotifiedUid,        \* uid of the last auth-state notification
    authEvents,             \* auth-state notifications not yet delivered
    providerReady,          \* the provider has restored its persisted session
    persisted,              \* the uid the provider restores at startup
    \* ---- frontend/src/utils/auth.js module state ----
    currentUser,            \* let currentUser
    authHeader,             \* axios.defaults.headers.common['Authorization'] is set
    authInitialized,        \* let authInitialized
    initPc,                 \* position of initializeAuth
    warmupInterval,         \* let warmupInterval (non-null)
    tokenRefreshInterval,   \* let tokenRefreshInterval (non-null)
    prod,                   \* import.meta.env.PROD
    published,              \* the last value handed to authStateListeners
    task,                   \* the running handleSuccessfulAuth invocations
    loginPc,                \* position of AuthService.login or register (one call
                            \* of the two at a time)
    logoutPc,               \* position of AuthService.logout
    tickPc,                 \* the setInterval callback of startTokenRefresh
    \* ---- history (not program state) ----
    loggedOut,              \* logout() returned success and no sign-in since
    \* ---- frontend/src/utils/token.js: localStorage ----
    store,                  \* the three keys of tokenManager
    \* ---- frontend/src/api/client.js ----
    reqs,                   \* the requests made through apiClient
    location,               \* window.location.href
    \* ---- frontend/src/utils/auth.js: calls through the retry interceptor ----
    calls,                  \* the calls made through the global axios
    \* ---- frontend/src/utils/auth.js: the listener registry ----
    authStateListeners,     \* let authStateListeners
    inbox,                  \* what each listener's callback was last called with
    closures,               \* the listeners that hold an unsubscribe function
    pubSeq,                 \* number of forEach notifications so far
    listenerThrew,          \* the last operation on the registry threw
    lastUnsub,              \* the unsubscribe functions run by the last operation
    \* ---- the environment of a call ----
    storage,                \* localStorage: "ok", "readonly" (setItem throws)
                            \* or "disabled" (every access throws)
    credentialsValid,       \* the credentials of the login in progress are
                            \* accepted by the provider (FALSE when none is)
    signInChanged,          \* history: the login or register in progress,
                            \* which can still fail, has itself changed the
                            \* provider's principal or queued an auth-state
                            \* notification
    \* ---- frontend/src/utils/token.js: a caller of tokenManager ----
    storeOp,                \* the last tokenManager call and how it ended
    \* ---- frontend/src/utils/token.js: AuthProvider ----
    ap,                     \* its user state and the position of initAuth,
                            \* login and logout
    \* ---- frontend/src/utils/auth.js: the timers of the warmup pinger ----
    timers,                 \* the pending setTimeout and the live setInterval
                            \* timers that run warmup
    probes,                 \* number of fetch(/ping) issued so far
    warmupOp                \* history: the last call of startWarmup or
                            \* stopWarmup, whether the pinger was running when
                            \* it was made, and the number of calls so far

sessionVars == <<fbUser, lastNotifiedUid, authEvents, providerReady, persisted,
                 currentUser, authHeader, authInitialized, initPc,
                 warmupInterval, tokenRefreshInterval, prod, published, task,
                 loginPc, logoutPc, tickPc,
                 loggedOut>>

gatewayVars == <<store, reqs, location>>

retryVars == <<calls>>

listenerVars ==
    <<authStateListeners, inbox, closures, pubSeq, listenerThrew, lastUnsub>>

envVars == <<storage, credentialsValid, signInChanged>>

storeVars == <<storeOp>>

providerVars == <<ap>>

warmupVars == <<timers, probes, warmupOp>>

vars == <<sessionVars, gatewayVars, retryVars, listenerVars, envVars, storeVars,
          providerVars, warmupVars>>

\* what the actions of one component leave alone
nonSessionVars ==
    <<gatewayVars, retryVars, listenerVars, envVars, storeVars, providerVars,
      warmupVars>>
nonLoginVars ==
    <<gatewayVars, retryVars, listenerVars, storage, storeVars, providerVars,
      warmupVars>>
nonGatewayVars ==
    <<sessionVars, retryVars, listenerVars, envVars, storeVars, providerVars,
      warmupVars>>
nonRetryVars ==
    <<sessionVars, gatewayVars, listenerVars, envVars, storeVars, providerVars,
      warmupVars>>
nonListenerVars ==
    <<gatewayVars, retryVars, envVars, storeVars, providerVars, warmupVars>>
nonProviderVars ==
    <<sessionVars, reqs, location, retryVars, listenerVars, envVars, storeVars,
      warmupVars>>
nonStoreVars ==
    <<sessionVars, reqs, location, retryVars, listenerVars, envVars, providerVars,
      warmupVars>>
nonWarmupVars ==
    <<fbUser, lastNotifiedUid, authEvents, providerReady, persisted,
      currentUser, authHeader, authInitialized, initPc, tokenRefreshInterval,
      prod, published, task, loginPc, logoutPc, tickPc, loggedOut,
      gatewayVars, retryVars, listenerVars, envVars, storeVars, providerVars>>

-----------------------------------------------------------------------------
(* Bounds of the model *)

\* handleSuccessfulAuth invocations that may run at the same time
MaxTasks == 2
\* auth-state notifications that may wait for delivery
MaxEvents == 2

(* Program constants *)

\* while (syncAttempts < 2 && !syncSuccess)
SyncAttempts == 2

\* axios.get('/auth/me', { timeout: 15000, ... }) in handleSuccessfulAuth
SyncTimeout == 15000

\* the timeout of the attempt-th profile fetch of a reconciliation
AttemptTimeout(attempt) == SyncTimeout

Uids == {"u1"}
Tasks == 1..MaxTasks

-----------------------------------------------------------------------------
(* Values of currentUser *)

NoUser ==
    [kind |-> "none", synced |-> FALSE, pending |-> FALSE,
     syncError |-> FALSE, fb |-> "none"]

\* the object built from the Firebase user alone
FirebaseData(u) ==
    [kind |-> "idp", synced |-> FALSE, pending |-> TRUE,
     syncError |-> FALSE, fb |-> u]

\* { ...response.data.data, firebaseUser, _syncedWithBackend: true, ... }
BackendData(u) ==
    [kind |-> "backend", synced |-> TRUE, pending |-> FALSE,
     syncError |-> FALSE, fb |-> u]

\* currentUser._syncedWithBackend = false; _syncPending = false; _syncError = {...}
\* variant: the exhausted loop records the error but leaves the sync pending
SyncStillPending(cu) == [cu EXCEPT !.synced = FALSE, !.syncError = TRUE]

\* variant: the exhausted loop records the error and leaves both flags alone
SyncErrorOnly(cu) == [cu EXCEPT !.syncError = TRUE]

SyncFailedData(cu) ==
    [cu EXCEPT !.synced = FALSE, !.pending = FALSE, !.syncError = TRUE]

\* the session state carried by a value of currentUser: null, or the flags
\* _syncedWithBackend and _syncPending
syncState(cu) ==
    IF cu = NoUser THEN "unauthenticated"
    ELSE IF cu.synced THEN "synced"
    ELSE IF cu.pending THEN "syncing"
    ELSE "syncFailed"

\* announced (history): this invocation has handed its syncing state to the
\* listeners
IdleTask ==
    [pc |-> "idle", fbu |-> "none", syncAttempts |-> 0, origin |-> "none",
     announced |-> FALSE]

FreeTask == CHOOSE t \in Tasks : task[t].pc = "idle" /\ \A s \in Tasks : task[s].pc = "idle" => t <= s

HasFreeTask == \E t \in Tasks : task[t].pc = "idle"

\* variant: the invocation starts at the profile fetch, without the early
\* notification
SpawnAtFetch(t, u, o) ==
    [task EXCEPT ![t] = [pc |-> "authMe", fbu |-> u, syncAttempts |-> 0,
                         origin |-> o, announced |-> FALSE]]

Spawn(t, u, o) ==
    [task EXCEPT ![t] = [pc |-> "getIdToken", fbu |-> u, syncAttempts |-> 0,
                         origin |-> o, announced |-> FALSE]]

-----------------------------------------------------------------------------
(* The identity provider *)

CanNotify == Len(authEvents) < MaxEvents

\* the provider notifies its observers only when the uid changed
Notify(u) ==
    IF u # lastNotifiedUid
    THEN /\ authEvents' = Append(authEvents, u)
         /\ lastNotifiedUid' = u
    ELSE UNCHANGED <<authEvents, lastNotifiedUid>>

\* startup: the provider restores the persisted principal and notifies once
ProviderRestore ==
    /\ ~providerReady
    /\ providerReady' = TRUE
    /\ fbUser' = persisted
    /\ authEvents' = Append(authEvents, persisted)
    /\ lastNotifiedUid' = persisted
    /\ UNCHANGED nonSessionVars
    /\ UNCHANGED <<persisted, currentUser, authHeader, authInitialized, initPc,
                   warmupInterval, tokenRefreshInterval, prod, published, task,
                   loginPc, logoutPc, tickPc,
                   loggedOut>>

-----------------------------------------------------------------------------
(* initializeAuth *)

\* variant: a failure of setPersistence ends initializeAuth without the
\* catch that sets authInitialized
InitSetPersistenceNoCatch(ok) ==
    /\ initPc = "setPersistence"
    /\ providerReady
    /\ ok => storage # "disabled"
    /\ initPc' = IF ok THEN "getRedirectResult" ELSE "done"
    /\ UNCHANGED nonSessionVars
    /\ UNCHANGED <<fbUser, lastNotifiedUid, authEvents, providerReady, persisted,
                   currentUser, authHeader, authInitialized, warmupInterval,
                   tokenRefreshInterval, prod, published, task, loginPc,
                   logoutPc, tickPc, loggedOut>>

\* localStorage.getItem('rememberMe'); await setPersistence(...): when either
\* throws the outer catch sets authInitialized
InitSetPersistence(ok) ==
    /\ initPc = "setPersistence"
    /\ providerReady
    /\ ok => storage # "disabled"
    /\ IF ok
       THEN /\ initPc' = "getRedirectResult"
            /\ UNCHANGED authInitialized
       ELSE /\ initPc' = "done"
            /\ authInitialized' = TRUE
    /\ UNCHANGED nonSessionVars
    /\ UNCHANGED <<fbUser, lastNotifiedUid, authEvents, providerReady, persisted,
                   currentUser, authHeader, warmupInterval, tokenRefreshInterval,
                   prod, published, task, loginPc, logoutPc, tickPc, loggedOut>>

\* await getRedirectResult(auth): no result, or an error caught by the inner catch
InitRedirectNone ==
    /\ initPc = "getRedirectResult"
    /\ initPc' = "done"
    /\ authInitialized' = TRUE
    /\ warmupInterval' = (warmupInterval \/ prod)
    /\ UNCHANGED nonSessionVars
    /\ UNCHANGED <<fbUser, lastNotifiedUid, authEvents, providerReady, persisted,
                   currentUser, authHeader, tokenRefreshInterval, prod, published,
                   task, loginPc, logoutPc, tickPc,
                   loggedOut>>

\* await getRedirectResult(auth): a user; await handleSuccessfulAuth(result.user)
InitRedirectUser ==
    /\ initPc = "getRedirectResult"
    /\ fbUser # "none"
    /\ HasFreeTask
    /\ initPc' = "handleSuccessfulAuth"
    /\ task' = Spawn(FreeTask, fbUser, "init")
    /\ UNCHANGED nonSessionVars
    /\ UNCHANGED <<fbUser, lastNotifiedUid, authEvents, providerReady, persisted,
                   currentUser, authHeader, authInitialized, warmupInterval,
                   tokenRefreshInterval, prod, published, loginPc,
                   logoutPc, tickPc, loggedOut>>

-----------------------------------------------------------------------------
(* handleSuccessfulAuth *)

\* What the caller does when handleSuccessfulAuth returns (threw = FALSE) or
\* throws, after the listeners were notified inside it (notified) or not: login goes on to its last await or returns the error; the
\* auth-state callback publishes currentUser; initializeAuth sets
\* authInitialized and starts the warmup in production.
HSA_Return(o, threw, cu, notified) ==
    /\ loginPc' = IF o = "login" THEN (IF threw THEN "idle" ELSE "getIdToken") ELSE loginPc
    /\ published' = IF o = "event" \/ notified THEN cu ELSE published
    /\ authInitialized' = IF o = "init" THEN TRUE ELSE authInitialized
    /\ initPc' = IF o = "init" THEN "done" ELSE initPc
    /\ warmupInterval' = IF o = "init" THEN (warmupInterval \/ prod) ELSE warmupInterval

\* const token = await firebaseUser.getIdToken()
HSA_GetIdToken(t, ok) ==
    /\ task[t].pc = "getIdToken"
    /\ IF ok
       THEN /\ authHeader' = TRUE
            /\ currentUser' = FirebaseData(task[t].fbu)
            /\ published' = currentUser'
            /\ task' = [task EXCEPT ![t].pc = "authMe", ![t].announced = TRUE]
            /\ UNCHANGED <<loginPc, authInitialized, initPc,
                           warmupInterval>>
       ELSE /\ authHeader' = FALSE
            /\ currentUser' = NoUser
            /\ task' = [task EXCEPT ![t] = IdleTask]
            /\ HSA_Return(task[t].origin, TRUE, NoUser, FALSE)
    /\ UNCHANGED nonSessionVars
    /\ UNCHANGED <<fbUser, lastNotifiedUid, authEvents, providerReady, persisted,
                   tokenRefreshInterval, prod, logoutPc, tickPc,
                   loggedOut>>

\* await axios.get('/auth/me') answered 200 with success
HSA_AuthMeOk(t) ==
    /\ task[t].pc = "authMe"
    /\ currentUser' = BackendData(task[t].fbu)
    /\ task' = [task EXCEPT ![t] = IdleTask]
    /\ HSA_Return(task[t].origin, FALSE, currentUser', TRUE)
    /\ UNCHANGED nonSessionVars
    /\ UNCHANGED <<fbUser, lastNotifiedUid, authEvents, providerReady, persisted,
                   authHeader, tokenRefreshInterval, prod, logoutPc,
                   tickPc, loggedOut>>

\* await axios.get('/auth/me') failed (or answered without success): the catch
\* counts the attempt and either waits or gives up; giving up with
\* currentUser === null throws a TypeError into the outer catch
HSA_AuthMeFailed(t) ==
    /\ task[t].pc = "authMe"
    /\ IF task[t].syncAttempts + 1 < SyncAttempts
       THEN /\ task' = [task EXCEPT ![t].pc = "retryDelay",
                                    ![t].syncAttempts = task[t].syncAttempts + 1]
            /\ UNCHANGED <<currentUser, authHeader, published,
                           loginPc, authInitialized, initPc,
                           warmupInterval>>
       ELSE /\ task' = [task EXCEPT ![t] = IdleTask]
            /\ IF currentUser = NoUser
               THEN /\ currentUser' = NoUser
                    /\ authHeader' = FALSE
                    /\ HSA_Return(task[t].origin, TRUE, NoUser, FALSE)
               ELSE /\ currentUser' = SyncFailedData(currentUser)
                    /\ authHeader' = authHeader
                    /\ HSA_Return(task[t].origin, FALSE, currentUser', TRUE)
    /\ UNCHANGED nonSessionVars
    /\ UNCHANGED <<fbUser, lastNotifiedUid, authEvents, providerReady, persisted,
                   tokenRefreshInterval, prod, logoutPc, tickPc,
                   loggedOut>>

\* await new Promise(resolve => setTimeout(resolve, 1000)), then the next attempt
HSA_RetryDelay(t) ==
    /\ task[t].pc = "retryDelay"
    /\ task' = [task EXCEPT ![t].pc = "authMe"]
    /\ UNCHANGED nonSessionVars
    /\ UNCHANGED <<fbUser, lastNotifiedUid, authEvents, providerReady, persisted,
                   currentUser, authHeader, authInitialized, initPc,
                   warmupInterval, tokenRefreshInterval, prod, published,
                   loginPc, logoutPc, tickPc,
                   loggedOut>>

-----------------------------------------------------------------------------
(* The two onAuthStateChanged callbacks, run for one notification *)

\* first callback: if (!authInitialized) return; a user starts
\* handleSuccessfulAuth, null clears the session and notifies the listeners.
\* second callback: a user (re)starts the token refresh and, in production,
\* the warmup; null stops both.
AuthStateChanged ==
    /\ authEvents # << >>
    /\ authEvents' = Tail(authEvents)
    /\ LET u == Head(authEvents) IN
       IF u # "none"
       THEN /\ authInitialized => HasFreeTask
            /\ task' = IF authInitialized THEN Spawn(FreeTask, u, "event") ELSE task
            /\ tokenRefreshInterval' = TRUE
            /\ warmupInterval' = (warmupInterval \/ prod)
            /\ UNCHANGED <<currentUser, authHeader, published>>
       ELSE /\ currentUser' = IF authInitialized THEN NoUser ELSE currentUser
            /\ authHeader' = IF authInitialized THEN FALSE ELSE authHeader
            /\ published' = IF authInitialized THEN NoUser ELSE published
            /\ tokenRefreshInterval' = FALSE
            /\ warmupInterval' = FALSE
            /\ UNCHANGED <<task>>
    /\ UNCHANGED nonSessionVars
    /\ UNCHANGED <<fbUser, lastNotifiedUid, providerReady, persisted,
                   authInitialized, initPc, prod, loginPc,
                   logoutPc, tickPc, loggedOut>>

-----------------------------------------------------------------------------
(* startTokenRefresh: the interval callback *)

\* the interval fires: if (auth.currentUser) ... await getIdToken(true)
RefreshTick ==
    /\ tokenRefreshInterval
    /\ tickPc = "idle"
    /\ fbUser # "none"
    /\ tickPc' = "getIdToken"
    /\ UNCHANGED nonSessionVars
    /\ UNCHANGED <<fbUser, lastNotifiedUid, authEvents, providerReady, persisted,
                   currentUser, authHeader, authInitialized, initPc,
                   warmupInterval, tokenRefreshInterval, prod, published, task,
                   loginPc, logoutPc,
                   loggedOut>>

\* variant: the sync is retried only while it is still pending
RetryOnlyWhilePending(cu) == cu # NoUser /\ cu.pending

\* the sync is retried when (currentUser && !currentUser._syncedWithBackend)
NeedsSyncRetry(cu) == cu # NoUser /\ ~cu.synced

\* getIdToken(true) answered: set the header, maybe await axios.get('/auth/me')
RefreshGetIdToken(ok) ==
    /\ tickPc = "getIdToken"
    /\ IF ok
       THEN /\ authHeader' = TRUE
            /\ tickPc' = IF NeedsSyncRetry(currentUser) THEN "authMe" ELSE "idle"
       ELSE /\ tickPc' = "idle"
            /\ UNCHANGED authHeader
    /\ UNCHANGED nonSessionVars
    /\ UNCHANGED <<fbUser, lastNotifiedUid, authEvents, providerReady, persisted,
                   currentUser, authInitialized, initPc, warmupInterval,
                   tokenRefreshInterval, prod, published, task, loginPc, logoutPc, loggedOut>>

\* axios.get('/auth/me') answered: on success adopt the profile and notify
RefreshAuthMe(ok) ==
    /\ tickPc = "authMe"
    /\ tickPc' = "idle"
    /\ IF ok
       THEN /\ currentUser' = BackendData(fbUser)
            /\ published' = currentUser'
       ELSE UNCHANGED <<currentUser, published>>
    /\ UNCHANGED nonSessionVars
    /\ UNCHANGED <<fbUser, lastNotifiedUid, authEvents, providerReady, persisted,
                   authHeader, authInitialized, initPc, warmupInterval,
                   tokenRefreshInterval, prod, task, loginPc,
                   logoutPc, loggedOut>>

-----------------------------------------------------------------------------
(* The warmup pinger: startWarmup, stopWarmup and the timers they own *)

\* calls of startWarmup and stopWarmup explored
MaxWarmupCalls == 5
\* probes explored
MaxProbes == 4

NoTimers == [timeouts |-> 0, intervals |-> 0]

\* the pinger: the module variable warmupInterval and the timers
Pinger(handle, t) ==
    [warmupInterval |-> handle, timeouts |-> t.timeouts, intervals |-> t.intervals]

\* startWarmup without its first line
startWarmupAlways(w) ==
    [w EXCEPT !.warmupInterval = TRUE, !.timeouts = @ + 1, !.intervals = @ + 1]

\* if (warmupInterval) return; setTimeout(warmup, 5000);
\* warmupInterval = setInterval(warmup, 4 * 60 * 1000)
startWarmup(w) ==
    IF w.warmupInterval
    THEN w
    ELSE [w EXCEPT !.warmupInterval = TRUE, !.timeouts = @ + 1, !.intervals = @ + 1]

\* if (warmupInterval) { clearInterval(warmupInterval); warmupInterval = null }
stopWarmup(w) ==
    IF w.warmupInterval
    THEN [w EXCEPT !.warmupInterval = FALSE, !.intervals = @ - 1]
    ELSE w

\* the pinger becomes w
SetPinger(w) ==
    /\ warmupInterval' = w.warmupInterval
    /\ timers' = [timeouts |-> w.timeouts, intervals |-> w.intervals]

\* a call of op is recorded
Called(op) ==
    /\ warmupOp.n < MaxWarmupCalls
    /\ warmupOp' = [op |-> op, running |-> warmupInterval, n |-> warmupOp.n + 1]

StartWarmup ==
    /\ Called("start")
    /\ SetPinger(startWarmup(Pinger(warmupInterval, timers)))
    /\ UNCHANGED <<probes, nonWarmupVars>>

StopWarmup ==
    /\ Called("stop")
    /\ SetPinger(stopWarmup(Pinger(warmupInterval, timers)))
    /\ UNCHANGED <<probes, nonWarmupVars>>

\* the timer set by setTimeout(warmup, 5000) is due: warmup() fetches /ping
TimeoutFires ==
    /\ timers.timeouts > 0
    /\ probes < MaxProbes
    /\ timers' = [timers EXCEPT !.timeouts = @ - 1]
    /\ probes' = probes + 1
    /\ UNCHANGED <<warmupInterval, warmupOp, nonWarmupVars>>

\* a timer set by setInterval(warmup, 4 * 60 * 1000) is due: warmup() fetches
\* /ping and the timer stays
IntervalFires ==
    /\ timers.intervals > 0
    /\ probes < MaxProbes
    /\ probes' = probes + 1
    /\ UNCHANGED <<warmupInterval, timers, warmupOp, nonWarmupVars>>

-----------------------------------------------------------------------------
(* AuthService.login *)

\* this step changes auth.currentUser or queues an auth-state notification
ChangesPrincipal ==
    <<fbUser, lastNotifiedUid, authEvents>>' # <<fbUser, lastNotifiedUid, authEvents>>

\* login() is called: await this.ensureInitialized()
LoginCall(valid) ==
    /\ loginPc = "idle"
    /\ loginPc' = "ensureInitialized"
    /\ credentialsValid' = valid
    /\ signInChanged' = FALSE
    /\ UNCHANGED nonLoginVars
    /\ UNCHANGED <<fbUser, lastNotifiedUid, authEvents, providerReady, persisted,
                   currentUser, authHeader, authInitialized, initPc,
                   warmupInterval, tokenRefreshInterval, prod, published, task,
                   logoutPc, tickPc, loggedOut>>

\* setPersistence and signInWithEmailAndPassword answered; on success
\* handleSuccessfulAuth(userCredential.user) starts, on failure the catch
\* returns { success: false, error }
LoginSignIn(ok, u) ==
    /\ loginPc = "ensureInitialized"
    /\ authInitialized
    /\ storage = "ok"
    /\ ok => credentialsValid
    /\ credentialsValid' = FALSE
    /\ IF ok
       THEN /\ HasFreeTask
            /\ CanNotify
            /\ fbUser' = u
            /\ Notify(u)
            /\ task' = Spawn(FreeTask, u, "login")
            /\ loginPc' = "handleSuccessfulAuth"
            /\ loggedOut' = FALSE
       ELSE /\ loginPc' = "idle"
            /\ UNCHANGED <<fbUser, lastNotifiedUid, authEvents, task, loggedOut>>
    /\ signInChanged' = FALSE
    /\ UNCHANGED nonLoginVars
    /\ UNCHANGED <<providerReady, persisted, currentUser, authHeader,
                   authInitialized, initPc, warmupInterval, tokenRefreshInterval,
                   prod, published, logoutPc, tickPc>>

\* localStorage.setItem('rememberMe', ...) throws before the sign-in is
\* attempted: the catch returns { success: false, error }
LoginStorageThrows ==
    /\ loginPc = "ensureInitialized"
    /\ authInitialized
    /\ storage # "ok"
    /\ loginPc' = "idle"
    /\ credentialsValid' = FALSE
    /\ signInChanged' = FALSE
    /\ UNCHANGED nonLoginVars
    /\ UNCHANGED <<fbUser, lastNotifiedUid, authEvents, providerReady, persisted,
                   currentUser, authHeader, authInitialized, initPc,
                   warmupInterval, tokenRefreshInterval, prod, published, task,
                   logoutPc, tickPc, loggedOut>>

\* token: await userCredential.user.getIdToken(), then return
LoginReturn(ok) ==
    /\ loginPc = "getIdToken"
    /\ loginPc' = "idle"
    /\ signInChanged' = FALSE
    /\ UNCHANGED <<nonLoginVars, credentialsValid>>
    /\ UNCHANGED <<fbUser, lastNotifiedUid, authEvents, providerReady, persisted,
                   currentUser, authHeader, authInitialized, initPc,
                   warmupInterval, tokenRefreshInterval, prod, published, task,
                   logoutPc, tickPc, loggedOut>>

-----------------------------------------------------------------------------
(* AuthService.register.  From handleSuccessfulAuth on it continues as login *)
(* does.                                                                     *)

\* register() is called: await this.ensureInitialized()
RegisterCall ==
    /\ loginPc = "idle"
    /\ loginPc' = "register:ensureInitialized"
    /\ signInChanged' = FALSE
    /\ UNCHANGED <<nonLoginVars, credentialsValid>>
    /\ UNCHANGED <<fbUser, lastNotifiedUid, authEvents, providerReady, persisted,
                   currentUser, authHeader, authInitialized, initPc,
                   warmupInterval, tokenRefreshInterval, prod, published, task,
                   logoutPc, tickPc, loggedOut>>

\* createUserWithEmailAndPassword answered: the provider has created the
\* account and signed it in, or the catch returns { success: false, error }
RegisterCreateUser(ok, u) ==
    /\ loginPc = "register:ensureInitialized"
    /\ authInitialized
    /\ IF ok
       THEN /\ CanNotify
            /\ fbUser' = u
            /\ Notify(u)
            /\ loginPc' = "register:sendEmailVerification"
            /\ loggedOut' = FALSE
       ELSE /\ loginPc' = "idle"
            /\ UNCHANGED <<fbUser, lastNotifiedUid, authEvents, loggedOut>>
    /\ signInChanged' = ChangesPrincipal
    /\ UNCHANGED <<nonLoginVars, credentialsValid>>
    /\ UNCHANGED <<providerReady, persisted, currentUser, authHeader,
                   authInitialized, initPc, warmupInterval, tokenRefreshInterval,
                   prod, published, task, logoutPc, tickPc>>

\* updateProfile and sendEmailVerification answered: handleSuccessfulAuth(user)
\* starts, or the catch returns { success: false, error }
RegisterSendVerification(ok, u) ==
    /\ loginPc = "register:sendEmailVerification"
    /\ IF ok
       THEN /\ HasFreeTask
            /\ task' = Spawn(FreeTask, u, "login")
            /\ loginPc' = "handleSuccessfulAuth"
       ELSE /\ loginPc' = "idle"
            /\ UNCHANGED task
    /\ signInChanged' = FALSE
    /\ UNCHANGED <<nonLoginVars, credentialsValid>>
    /\ UNCHANGED <<fbUser, lastNotifiedUid, authEvents, providerReady, persisted,
                   currentUser, authHeader, authInitialized, initPc,
                   warmupInterval, tokenRefreshInterval, prod, published,
                   logoutPc, tickPc, loggedOut>>

-----------------------------------------------------------------------------
(* AuthService.logout *)

\* logout() is called: await signOut(auth)
LogoutCall ==
    /\ logoutPc = "idle"
    /\ logoutPc' = "signOut"
    /\ UNCHANGED nonSessionVars
    /\ UNCHANGED <<fbUser, lastNotifiedUid, authEvents, providerReady, persisted,
                   currentUser, authHeader, authInitialized, initPc,
                   warmupInterval, tokenRefreshInterval, prod, published, task,
                   loginPc, tickPc, loggedOut>>

\* the provider signs the principal out and notifies its observers
LogoutSignedOut ==
    /\ logoutPc = "signOut"
    /\ providerReady
    /\ CanNotify
    /\ fbUser' = "none"
    /\ Notify("none")
    /\ logoutPc' = "signedOut"
    /\ UNCHANGED nonSessionVars
    /\ UNCHANGED <<providerReady, persisted, currentUser, authHeader,
                   authInitialized, initPc, warmupInterval, tokenRefreshInterval,
                   prod, published, task, loginPc,
                   tickPc, loggedOut>>

\* signOut(auth) rejected: catch, return { success: false, error }
LogoutSignOutFailed ==
    /\ logoutPc = "signOut"
    /\ providerReady
    /\ logoutPc' = "idle"
    /\ UNCHANGED nonSessionVars
    /\ UNCHANGED <<fbUser, lastNotifiedUid, authEvents, providerReady, persisted,
                   currentUser, authHeader, authInitialized, initPc,
                   warmupInterval, tokenRefreshInterval, prod, published, task,
                   loginPc, tickPc, loggedOut>>

\* after await signOut(auth): delete the header, localStorage.removeItem,
\* stop the token refresh and the warmup, currentUser = null, return
\* { success: true }; when removeItem throws, the catch returns
\* { success: false } after the header was deleted
LogoutFinish ==
    /\ logoutPc = "signedOut"
    /\ authHeader' = FALSE
    /\ logoutPc' = "idle"
    /\ IF storage = "disabled"
       THEN UNCHANGED <<tokenRefreshInterval, warmupInterval, currentUser, loggedOut>>
       ELSE /\ tokenRefreshInterval' = FALSE
            /\ warmupInterval' = FALSE
            /\ currentUser' = NoUser
            /\ loggedOut' = (fbUser = "none")
    /\ UNCHANGED nonSessionVars
    /\ UNCHANGED <<fbUser, lastNotifiedUid, authEvents, providerReady, persisted,
                   authInitialized, initPc, prod, published, task, loginPc, tickPc>>

-----------------------------------------------------------------------------
(* tokenManager: the credential store over localStorage.  0 and "none" stand *)
(* for a key that is not stored (getItem returns null).                       *)

\* access tokens the backend may hand out
MaxTokens == 2
\* requests made through apiClient
MaxRequests == 2
\* refreshes one request may start before the model stops counting
MaxRefreshes == 3

Tokens == 1..MaxTokens
Reqs == 1..MaxRequests

\* variant: only the refresh token is stored
setTokensDropsAccess(st, accessToken, refreshToken) ==
    [st EXCEPT !.refresh = IF refreshToken # 0 THEN refreshToken ELSE @]

setTokens(st, accessToken, refreshToken) ==
    [st EXCEPT !.access = IF accessToken # 0 THEN accessToken ELSE @,
               !.refresh = IF refreshToken # 0 THEN refreshToken ELSE @]

getAccessToken(st) == st.access

getRefreshToken(st) == st.refresh

\* variant: the refresh token survives the clearing
clearTokensKeepsRefresh(st) == [st EXCEPT !.access = 0, !.user = "none"]

clearTokens(st) == [st EXCEPT !.access = 0, !.refresh = 0, !.user = "none"]

-----------------------------------------------------------------------------
(* tokenManager called while localStorage may throw.  No method of           *)
(* tokenManager catches: an exception of localStorage reaches the caller.    *)

\* localStorage.setItem throws
SetItemThrows == storage # "ok"
\* localStorage.getItem and localStorage.removeItem throw
GetItemThrows == storage = "disabled"

NoOp == [op |-> "none", threw |-> FALSE, ret |-> << >>]

\* the outcome of a call: it threw, or returned ret (<< >> stands for null
\* and for undefined)
Outcome(op, threw, ret) ==
    [op |-> op, threw |-> threw, ret |-> IF threw THEN << >> ELSE ret]

\* the value getItem returns: null for a key that is not stored
TokenItem(v) == IF v = 0 THEN << >> ELSE <<v>>
\* JSON.parse of the stored user, null for a key that is not stored
UserItem(v) == IF v = "none" THEN << >> ELSE <<v>>

\* tokenManager.setTokens(accessToken, refreshToken)
StoreSetTokens(accessToken, refreshToken) ==
    LET throws == (accessToken # 0 \/ refreshToken # 0) /\ SetItemThrows
    IN  /\ storeOp' = Outcome("setTokens", throws, << >>)
        /\ store' = IF throws THEN store ELSE setTokens(store, accessToken, refreshToken)
        /\ UNCHANGED nonStoreVars

\* tokenManager.getAccessToken()
StoreGetAccessToken ==
    /\ storeOp' = Outcome("getAccessToken", GetItemThrows, TokenItem(getAccessToken(store)))
    /\ UNCHANGED <<store, nonStoreVars>>

\* tokenManager.getRefreshToken()
StoreGetRefreshToken ==
    /\ storeOp' = Outcome("getRefreshToken", GetItemThrows, TokenItem(getRefreshToken(store)))
    /\ UNCHANGED <<store, nonStoreVars>>

\* tokenManager.clearTokens()
StoreClearTokens ==
    /\ storeOp' = Outcome("clearTokens", GetItemThrows, << >>)
    /\ store' = IF GetItemThrows THEN store ELSE clearTokens(store)
    /\ UNCHANGED nonStoreVars

\* tokenManager.setUser(user)
StoreSetUser(u) ==
    /\ storeOp' = Outcome("setUser", SetItemThrows, << >>)
    /\ store' = IF SetItemThrows THEN store ELSE [store EXCEPT !.user = u]
    /\ UNCHANGED nonStoreVars

\* tokenManager.getUser()
StoreGetUser ==
    /\ storeOp' = Outcome("getUser", GetItemThrows, UserItem(store.user))
    /\ UNCHANGED <<store, nonStoreVars>>

\* tokenManager.isAuthenticated()
StoreIsAuthenticated ==
    /\ storeOp' = Outcome("isAuthenticated", GetItemThrows, <<getAccessToken(store) # 0>>)
    /\ UNCHANGED <<store, nonStoreVars>>

-----------------------------------------------------------------------------
(* apiClient: the request and response interceptors *)

IdleReq ==
    [pc |-> "idle", retry |-> FALSE, hdr |-> 0, rt |-> 0, sends |-> 0,
     refreshes |-> 0, newTok |-> 0, err |-> "none"]

\* request interceptor: if (token) config.headers.Authorization = `Bearer ${token}`
AttachToken(hdr, st) ==
    IF getAccessToken(st) # 0 THEN getAccessToken(st) ELSE hdr

\* variant: the _retry flag is ignored
RefreshOnEvery401(unauthorized, retry) == unauthorized

\* if (error.response?.status === 401 && !originalRequest._retry)
ShouldRefresh(unauthorized, retry) == unauthorized /\ ~retry

\* feature code calls apiClient(...): the request interceptor runs, the request leaves
Request(r) ==
    /\ reqs[r].pc = "idle"
    /\ reqs' = [reqs EXCEPT ![r].pc = "sent",
                            ![r].hdr = AttachToken(0, store),
                            ![r].sends = 1]
    /\ UNCHANGED <<store, location>>
    /\ UNCHANGED nonGatewayVars

\* a 2xx answer: response => response
ResponseOk(r) ==
    /\ reqs[r].pc = "sent"
    /\ reqs' = [reqs EXCEPT ![r].pc = "resolved"]
    /\ UNCHANGED <<store, location>>
    /\ UNCHANGED nonGatewayVars

\* an error answer: a first 401 marks the request, then starts a refresh with
\* the stored refresh token or, without one, clears the tokens and redirects;
\* any other error, and a 401 of a request already marked, is rejected
ResponseError(r, unauthorized) ==
    /\ reqs[r].pc = "sent"
    /\ IF ShouldRefresh(unauthorized, reqs[r].retry)
       THEN IF getRefreshToken(store) # 0
            THEN /\ reqs[r].refreshes < MaxRefreshes
                 /\ reqs' = [reqs EXCEPT ![r].pc = "refreshing",
                                         ![r].retry = TRUE,
                                         ![r].rt = getRefreshToken(store),
                                         ![r].refreshes = @ + 1]
                 /\ UNCHANGED <<store, location>>
            ELSE /\ reqs' = [reqs EXCEPT ![r].pc = "rejected",
                                         ![r].retry = TRUE,
                                         ![r].err = "noRefreshToken"]
                 /\ store' = clearTokens(store)
                 /\ location' = "/login"
       ELSE /\ reqs' = [reqs EXCEPT ![r].pc = "rejected",
                                    ![r].err = IF unauthorized THEN "http401" ELSE "other"]
            /\ UNCHANGED <<store, location>>
    /\ UNCHANGED nonGatewayVars

\* POST /api/auth/refresh answered with access_token: store it, put it on the
\* original request and send that again through apiClient
RefreshOk(r, access_token) ==
    /\ reqs[r].pc = "refreshing"
    /\ store' = setTokens(store, access_token, reqs[r].rt)
    /\ reqs' = [reqs EXCEPT ![r].pc = "sent",
                            ![r].newTok = access_token,
                            ![r].hdr = AttachToken(access_token, store'),
                            ![r].sends = @ + 1]
    /\ UNCHANGED location
    /\ UNCHANGED nonGatewayVars

\* POST /api/auth/refresh failed: clear the tokens, redirect, reject(refreshError)
RefreshFailed(r) ==
    /\ reqs[r].pc = "refreshing"
    /\ store' = clearTokens(store)
    /\ location' = "/login"
    /\ reqs' = [reqs EXCEPT ![r].pc = "rejected", ![r].err = "refreshError"]
    /\ UNCHANGED nonGatewayVars

-----------------------------------------------------------------------------
(* AuthProvider (frontend/src/utils/token.js): initAuth, login, logout.      *)
(* Each awaits one call of api.auth; the action after the await takes the    *)
(* outcome of that call as its input.                                        *)

\* loginDuringInit (history): a login has stored its credentials while the
\* startup verification was in flight, and no logout has finished since
IdleProvider ==
    [init |-> "start", login |-> "idle", logout |-> "idle", user |-> "none",
     loginDuringInit |-> FALSE]

\* tokenManager.setUser(user)
setUser(st, u) == [st EXCEPT !.user = u]

\* useEffect: initAuth() reads the stored token and user; with both it adopts
\* the user and awaits api.auth.getCurrentUser()
APInitAuth ==
    /\ ap.init = "start"
    /\ IF getAccessToken(store) # 0 /\ store.user # "none"
       THEN ap' = [ap EXCEPT !.init = "verifying", !.user = store.user]
       ELSE ap' = [ap EXCEPT !.init = "done"]
    /\ UNCHANGED <<store, nonProviderVars>>

\* getCurrentUser answered: store the user, or clear everything
APInitVerified(ok) ==
    /\ ap.init = "verifying"
    /\ IF ok
       THEN /\ ap' = [ap EXCEPT !.init = "done", !.user = "u1"]
            /\ store' = setUser(store, "u1")
       ELSE /\ ap' = [ap EXCEPT !.init = "done", !.user = "none"]
            /\ store' = clearTokens(store)
    /\ UNCHANGED nonProviderVars

\* login(email, password): await api.auth.login(email, password)
APLoginCall ==
    /\ ap.login = "idle"
    /\ ap' = [ap EXCEPT !.login = "inFlight"]
    /\ UNCHANGED <<store, nonProviderVars>>

\* the login answered with user, access_token and refresh_token
APLoginOk(access_token) ==
    /\ ap.login = "inFlight"
    /\ store' = setUser(setTokens(store, access_token, 1), "u1")
    /\ ap' = [ap EXCEPT !.login = "idle", !.user = "u1",
                        !.loginDuringInit = (@ \/ ap.init = "verifying")]
    /\ UNCHANGED nonProviderVars

\* the login failed: the error is thrown to the caller
APLoginFailed ==
    /\ ap.login = "inFlight"
    /\ ap' = [ap EXCEPT !.login = "idle"]
    /\ UNCHANGED <<store, nonProviderVars>>

\* logout(): await api.auth.logout()
APLogoutCall ==
    /\ ap.logout = "idle"
    /\ ap' = [ap EXCEPT !.logout = "inFlight"]
    /\ UNCHANGED <<store, nonProviderVars>>

\* the logout call answered or failed: finally clearTokens(), setUser(null)
APLogoutFinish ==
    /\ ap.logout = "inFlight"
    /\ store' = clearTokens(store)
    /\ ap' = [ap EXCEPT !.logout = "idle", !.user = "none",
                        !.loginDuringInit = FALSE]
    /\ UNCHANGED nonProviderVars

-----------------------------------------------------------------------------
(* The retry interceptor of the global axios (frontend/src/utils/auth.js) *)

\* calls made through axios at the same time
MaxCalls == 2

\* const MAX_RETRIES = 2
MAX_RETRIES == 2
\* const RETRY_DELAY = 1000
RETRY_DELAY == 1000

Calls == 1..MaxCalls

NoError == [response |-> FALSE, code |-> "none", class |-> "none"]

\* a timeout of the request: no response, code ECONNABORTED
TimeoutError == [response |-> FALSE, code |-> "ECONNABORTED", class |-> "none"]

\* what a call can fail with: timeout, connection errors without a response,
\* and answers with a 4xx or 5xx status
Errors ==
    { TimeoutError,
      [response |-> FALSE, code |-> "ERR_NETWORK", class |-> "none"],
      [response |-> FALSE, code |-> "NETWORK_ERROR", class |-> "none"],
      [response |-> TRUE, code |-> "ERR_BAD_REQUEST", class |-> "4xx"],
      [response |-> TRUE, code |-> "ERR_BAD_RESPONSE", class |-> "5xx"] }

IdleCall ==
    [pc |-> "idle", retry |-> 0, attempts |-> 0, delays |-> << >>,
     lastErr |-> NoError, onlyTimeouts |-> TRUE]

\* const shouldRetry = config.retry < MAX_RETRIES && !error.response &&
\*     (error.code === 'ECONNABORTED' || error.code === 'NETWORK_ERROR')
\* variant: every failure is retried while retries remain
RetryAnyError(retry, error) == retry < MAX_RETRIES

\* variant: the same delay before every retry
ConstantDelay(retry) == RETRY_DELAY

shouldRetry(retry, error) ==
    /\ retry < MAX_RETRIES
    /\ ~error.response
    /\ error.code \in {"ECONNABORTED", "NETWORK_ERROR"}

\* RETRY_DELAY * Math.pow(2, config.retry - 1)
BackoffDelay(retry) == RETRY_DELAY * 2^(retry - 1)

\* axios(...) is called: the first attempt leaves
CallStart(c) ==
    /\ calls[c].pc = "idle"
    /\ calls' = [calls EXCEPT ![c].pc = "inFlight", ![c].attempts = 1]
    /\ UNCHANGED nonRetryVars

\* the attempt is answered: response => response
CallOk(c) ==
    /\ calls[c].pc = "inFlight"
    /\ calls' = [calls EXCEPT ![c].pc = "resolved"]
    /\ UNCHANGED nonRetryVars

\* the attempt failed with e: count a retry and wait, or reject
CallError(c, e) ==
    /\ calls[c].pc = "inFlight"
    /\ IF shouldRetry(calls[c].retry, e)
       THEN calls' = [calls EXCEPT ![c].pc = "backoff",
                                   ![c].retry = @ + 1,
                                   ![c].delays = Append(@, BackoffDelay(calls[c].retry + 1)),
                                   ![c].lastErr = e,
                                   ![c].onlyTimeouts = @ /\ e = TimeoutError]
       ELSE calls' = [calls EXCEPT ![c].pc = "rejected",
                                   ![c].lastErr = e,
                                   ![c].onlyTimeouts = @ /\ e = TimeoutError]
    /\ UNCHANGED nonRetryVars

\* the backoff timer fired: return axios(config)
CallRetry(c) ==
    /\ calls[c].pc = "backoff"
    /\ calls' = [calls EXCEPT ![c].pc = "inFlight", ![c].attempts = @ + 1]
    /\ UNCHANGED nonRetryVars

-----------------------------------------------------------------------------
(* The listener registry: AuthService.onAuthStateChange, the unsubscribe     *)
(* function it returns, and authStateListeners.forEach(listener =>           *)
(* listener(currentUser)).  A callback can return, throw, and call an        *)
(* unsubscribe function before it does either.                               *)

\* entries authStateListeners may hold (a callback may be pushed twice)
MaxRegistrations == 3
\* forEach notifications
MaxPublications == 2

\* the callbacks the application may subscribe
Listeners == {"l1", "l2"}

\* the values a notification can carry
UserValues ==
    {NoUser, FirebaseData("u1"), BackendData("u1"), SyncFailedData(FirebaseData("u1"))}

\* the callback was never called
NotCalled ==
    [kind |-> "notCalled", synced |-> FALSE, pending |-> FALSE,
     syncError |-> FALSE, fb |-> "none"]

\* val: the argument of the last call; seq: the notification that call
\* belonged to (unchanged by the call made at subscription)
EmptyBox == [val |-> NotCalled, seq |-> 0]

\* what one callback does when called: unsub is the listener whose
\* unsubscribe function it calls ("none": it calls none)
Behaviours == [throws : BOOLEAN, unsub : Listeners \cup {"none"}]

\* variant: the last entry is removed, whoever it belongs to
unsubscribeDropsLast(ls, l) ==
    IF ls = << >> THEN ls ELSE SubSeq(ls, 1, Len(ls) - 1)

\* authStateListeners.filter(listener => listener !== callback)
unsubscribe(ls, l) == SelectSeq(ls, LAMBDA x : x # l)

\* variant: subscribing does not call the callback
NoReplay(box, l, cu) == box

\* callback(currentUser) at subscription
Replay(box, l, cu) == [box EXCEPT ![l].val = cu]

\* listener(currentUser) of notification n
Deliver(box, l, v, n) == [box EXCEPT ![l] = [val |-> v, seq |-> n]]

\* Array.prototype.forEach over the array as it was when the notification
\* began: entry i is called; what it unsubscribes replaces the module's
\* array (filter builds a new one); a throw ends the iteration
RECURSIVE forEach(_, _, _, _, _, _)
forEach(snap, i, st, v, n, beh) ==
    IF i > Len(snap)
    THEN st
    ELSE LET l == snap[i]
             u == beh[l].unsub
             st1 == [ls |-> IF u # "none" THEN unsubscribe(st.ls, u) ELSE st.ls,
                     box |-> Deliver(st.box, l, v, n),
                     unsub |-> IF u # "none" THEN st.unsub \cup {u} ELSE st.unsub,
                     threw |-> beh[l].throws]
         IN  IF beh[l].throws THEN st1 ELSE forEach(snap, i + 1, st1, v, n, beh)

\* onAuthStateChange(callback): push, call with the current state, return
\* the unsubscribe function
onAuthStateChange(l) ==
    /\ Len(authStateListeners) < MaxRegistrations
    /\ authStateListeners' = Append(authStateListeners, l)
    /\ inbox' = Replay(inbox, l, currentUser)
    /\ closures' = closures \cup {l}
    /\ listenerThrew' = FALSE
    /\ lastUnsub' = {}
    /\ UNCHANGED <<pubSeq, sessionVars, nonListenerVars>>

\* the unsubscribe function of l is called outside a notification
Unsubscribe(l) ==
    /\ l \in closures
    /\ authStateListeners' = unsubscribe(authStateListeners, l)
    /\ listenerThrew' = FALSE
    /\ lastUnsub' = {l}
    /\ UNCHANGED <<inbox, closures, pubSeq, sessionVars, nonListenerVars>>

\* currentUser = v; authStateListeners.forEach(listener => listener(currentUser))
NotifyListeners(v, beh) ==
    /\ pubSeq < MaxPublications
    /\ \A l \in Listeners : beh[l].unsub # "none" => beh[l].unsub \in closures
    /\ currentUser' = v
    /\ pubSeq' = pubSeq + 1
    /\ LET r == forEach(authStateListeners, 1,
                        [ls |-> authStateListeners, box |-> inbox,
                         unsub |-> {}, threw |-> FALSE],
                        v, pubSeq + 1, beh)
       IN  /\ authStateListeners' = r.ls
           /\ inbox' = r.box
           /\ lastUnsub' = r.unsub
           /\ listenerThrew' = r.threw
    /\ UNCHANGED <<closures, nonListenerVars>>
    /\ UNCHANGED <<fbUser, lastNotifiedUid, authEvents, providerReady, persisted,
                   authHeader, authInitialized, initPc, warmupInterval,
                   tokenRefreshInterval, prod, published, task, loginPc,
                   logoutPc, tickPc, loggedOut>>

-----------------------------------------------------------------------------
(* The session coordinator *)

\* localStorage works, throws on setItem (quota, private mode), or throws on
\* every access
StorageModes == {"ok", "readonly", "disabled"}

\* A persisted principal is restored only with a working storage.  The
\* production build is modelled (import.meta.env.PROD): the development build
\* differs only in never starting the warmup.
SessionInit ==
    /\ fbUser = "none"
    /\ lastNotifiedUid = "undefined"
    /\ authEvents = << >>
    /\ providerReady = FALSE
    /\ storage \in StorageModes
    /\ credentialsValid = FALSE
    /\ signInChanged = FALSE
    /\ persisted \in (IF storage = "ok" THEN Uids ELSE {}) \cup {"none"}
    /\ currentUser = NoUser
    /\ authHeader = FALSE
    /\ authInitialized = FALSE
    /\ initPc = "setPersistence"
    /\ warmupInterval = FALSE
    /\ tokenRefreshInterval = FALSE
    /\ prod = TRUE
    /\ published = NoUser
    /\ task = [t \in Tasks |-> IdleTask]
    /\ loginPc = "idle"
    /\ logoutPc = "idle"
    /\ tickPc = "idle"
    /\ loggedOut = FALSE

\* localStorage as an earlier page left it
GatewayInit ==
    /\ store \in [access : {0, 1}, refresh : {0, 1}, user : {"none", "u1"}]
    /\ reqs = [r \in Reqs |-> IdleReq]
    /\ location = "/"

RetryInit == calls = [c \in Calls |-> IdleCall]

\* the parts a specification leaves alone
GatewayIdle ==
    /\ store = [access |-> 0, refresh |-> 0, user |-> "none"]
    /\ reqs = [r \in Reqs |-> IdleReq]
    /\ location = "/"

SessionIdle ==
    /\ SessionInit
    /\ storage = "ok"
    /\ persisted = "none"

StoreInit == storeOp = NoOp

WarmupInit ==
    /\ timers = NoTimers
    /\ probes = 0
    /\ warmupOp = [op |-> "none", running |-> FALSE, n |-> 0]

ProviderInit == ap = IdleProvider

\* no listener subscribed yet
ListenerInit ==
    /\ authStateListeners = << >>
    /\ inbox = [l \in Listeners |-> EmptyBox]
    /\ closures = {}
    /\ pubSeq = 0
    /\ listenerThrew = FALSE
    /\ lastUnsub = {}

Init == SessionInit /\ GatewayIdle /\ RetryInit /\ ListenerInit /\ StoreInit /\ ProviderInit /\ WarmupInit

\* what runs whichever sign-in operation the application uses
CoordinatorNext ==
    \/ ProviderRestore
    \/ \E ok \in BOOLEAN : InitSetPersistence(ok)
    \/ InitRedirectNone
    \/ InitRedirectUser
    \/ \E t \in Tasks, ok \in BOOLEAN : HSA_GetIdToken(t, ok)
    \/ \E t \in Tasks : HSA_AuthMeOk(t)
    \/ \E t \in Tasks : HSA_AuthMeFailed(t)
    \/ \E t \in Tasks : HSA_RetryDelay(t)
    \/ AuthStateChanged
    \/ RefreshTick
    \/ \E ok \in BOOLEAN : RefreshGetIdToken(ok)
    \/ \E ok \in BOOLEAN : RefreshAuthMe(ok)
    \/ \E ok \in BOOLEAN : LoginReturn(ok)
    \/ LogoutCall
    \/ LogoutSignedOut
    \/ LogoutSignOutFailed
    \/ LogoutFinish

\* the application signs in with login
Next ==
    \/ CoordinatorNext
    \/ \E valid \in BOOLEAN : LoginCall(valid)
    \/ \E ok \in BOOLEAN, u \in Uids : LoginSignIn(ok, u)
    \/ LoginStorageThrows

Spec == Init /\ [][Next]_vars

\* Every await of initializeAuth and of handleSuccessfulAuth is answered (the
\* provider answers or rejects, every fetch has a timeout, every delay ends),
\* the provider finishes restoring its session, and a queued auth-state
\* notification is delivered.
HSA_Step(t) ==
    \/ \E ok \in BOOLEAN : HSA_GetIdToken(t, ok)
    \/ HSA_AuthMeOk(t)
    \/ HSA_AuthMeFailed(t)
    \/ HSA_RetryDelay(t)

Fairness ==
    /\ WF_vars(ProviderRestore)
    /\ WF_vars(\E ok \in BOOLEAN : InitSetPersistence(ok))
    /\ WF_vars(InitRedirectNone \/ InitRedirectUser)
    /\ \A t \in Tasks : WF_vars(HSA_Step(t))
    /\ WF_vars(AuthStateChanged)

SpecFair == Spec /\ Fairness

\* the coordinator before the first tick of the 50-minute refresh timer: the
\* only writers of currentUser are handleSuccessfulAuth invocations, the
\* auth-state callback and logout
NextReconcile ==
    \/ ProviderRestore
    \/ \E ok \in BOOLEAN : InitSetPersistence(ok)
    \/ InitRedirectNone
    \/ InitRedirectUser
    \/ \E t \in Tasks, ok \in BOOLEAN : HSA_GetIdToken(t, ok)
    \/ \E t \in Tasks : HSA_AuthMeOk(t)
    \/ \E t \in Tasks : HSA_AuthMeFailed(t)
    \/ \E t \in Tasks : HSA_RetryDelay(t)
    \/ AuthStateChanged
    \/ \E valid \in BOOLEAN : LoginCall(valid)
    \/ \E ok \in BOOLEAN, u \in Uids : LoginSignIn(ok, u)
    \/ LoginStorageThrows
    \/ \E ok \in BOOLEAN : LoginReturn(ok)
    \/ LogoutCall
    \/ LogoutSignedOut
    \/ LogoutSignOutFailed
    \/ LogoutFinish

SpecReconcile == Init /\ [][NextReconcile]_vars

\* the startup of a session nobody logs out of, before the first tick and
\* with every await answered: initializeAuth, the callers of
\* ensureInitialized and the reconciliations they and the provider start
NextStartup ==
    \/ ProviderRestore
    \/ \E ok \in BOOLEAN : InitSetPersistence(ok)
    \/ InitRedirectNone
    \/ InitRedirectUser
    \/ \E t \in Tasks, ok \in BOOLEAN : HSA_GetIdToken(t, ok)
    \/ \E t \in Tasks : HSA_AuthMeOk(t)
    \/ \E t \in Tasks : HSA_AuthMeFailed(t)
    \/ \E t \in Tasks : HSA_RetryDelay(t)
    \/ AuthStateChanged
    \/ \E valid \in BOOLEAN : LoginCall(valid)
    \/ \E ok \in BOOLEAN, u \in Uids : LoginSignIn(ok, u)
    \/ LoginStorageThrows
    \/ \E ok \in BOOLEAN : LoginReturn(ok)

SpecStartup == Init /\ [][NextStartup]_vars /\ Fairness

\* the application signs in with register, localStorage working
InitRegister == Init /\ storage = "ok"

NextRegister ==
    \/ CoordinatorNext
    \/ RegisterCall
    \/ \E ok \in BOOLEAN, u \in Uids : RegisterCreateUser(ok, u)
    \/ \E ok \in BOOLEAN, u \in Uids : RegisterSendVerification(ok, u)

SpecRegister == InitRegister /\ [][NextRegister]_vars

InitGateway == SessionIdle /\ GatewayInit /\ RetryInit /\ ListenerInit /\ StoreInit /\ ProviderInit /\ WarmupInit

NextGateway ==
    \/ \E r \in Reqs : Request(r)
    \/ \E r \in Reqs : ResponseOk(r)
    \/ \E r \in Reqs, unauthorized \in BOOLEAN : ResponseError(r, unauthorized)
    \/ \E r \in Reqs, tk \in Tokens : RefreshOk(r, tk)
    \/ \E r \in Reqs : RefreshFailed(r)

SpecGateway == InitGateway /\ [][NextGateway]_vars

\* the gateway with the AuthProvider that signs in and out through it
NextProvider ==
    \/ NextGateway
    \/ APInitAuth
    \/ \E ok \in BOOLEAN : APInitVerified(ok)
    \/ APLoginCall
    \/ \E tk \in Tokens : APLoginOk(tk)
    \/ APLoginFailed
    \/ APLogoutCall
    \/ APLogoutFinish

SpecProvider == InitGateway /\ [][NextProvider]_vars

InitRetry == SessionIdle /\ GatewayIdle /\ RetryInit /\ ListenerInit /\ StoreInit /\ ProviderInit /\ WarmupInit

NextRetry ==
    \/ \E c \in Calls : CallStart(c)
    \/ \E c \in Calls : CallOk(c)
    \/ \E c \in Calls, e \in Errors : CallError(c, e)
    \/ \E c \in Calls : CallRetry(c)

SpecRetry == InitRetry /\ [][NextRetry]_vars

InitListeners == SessionIdle /\ GatewayIdle /\ RetryInit /\ ListenerInit /\ StoreInit /\ ProviderInit /\ WarmupInit

NextListeners ==
    \/ \E l \in Listeners : onAuthStateChange(l)
    \/ \E l \in Listeners : Unsubscribe(l)
    \/ \E v \in UserValues, beh \in [Listeners -> Behaviours] : NotifyListeners(v, beh)

SpecListeners == InitListeners /\ [][NextListeners]_vars

\* the session coordinator idle, localStorage in any mode
InitStore ==
    /\ SessionInit
    /\ persisted = "none"
    /\ GatewayInit
    /\ RetryInit
    /\ ListenerInit
    /\ StoreInit
    /\ ProviderInit
    /\ WarmupInit

NextStore ==
    \/ \E a \in Tokens \cup {0}, r \in {0, 1} : StoreSetTokens(a, r)
    \/ StoreGetAccessToken
    \/ StoreGetRefreshToken
    \/ StoreClearTokens
    \/ \E u \in Uids : StoreSetUser(u)
    \/ StoreGetUser
    \/ StoreIsAuthenticated

SpecStore == InitStore /\ [][NextStore]_vars

-----------------------------------------------------------------------------
(* The warmup pinger alone: startWarmup and stopWarmup called in any order,  *)
(* the timers firing whenever they are due.                                  *)

InitWarmup == SessionIdle /\ GatewayIdle /\ RetryInit /\ ListenerInit /\ StoreInit /\ ProviderInit /\ WarmupInit

NextWarmup ==
    \/ StartWarmup
    \/ StopWarmup
    \/ TimeoutFires
    \/ IntervalFires

SpecWarmup == InitWarmup /\ [][NextWarmup]_vars

-----------------------------------------------------------------------------
(* Claims about the session coordinator (Spec) *)

\* C1: in every reachable state the identity-provider principal is null if
\* and only if the session is unauthenticated:
\* auth.currentUser == null <=> currentUser == null.
C1_PrincipalNullIffUnauthenticated ==
    (fbUser = "none") <=> (currentUser = NoUser)

\* the answer to an /auth/me fetch of a reconciliation or of the refresh tick
\* arrives in this step
AuthMeAnswered ==
    \/ \E t \in Tasks : task[t].pc = "authMe" /\ task'[t] # task[t]
    \/ tickPc = "authMe" /\ tickPc' # tickPc

\* C2: when logout() has returned while an /auth/me fetch was in flight, the
\* answer arriving afterwards is discarded: the session stays unauthenticated
\* (currentUser null, neither synced nor syncFailed) and no non-null user is
\* handed to the listeners, until a new sign-in.
C2_LogoutDiscardsLateSync ==
    [][ (loggedOut /\ AuthMeAnswered) =>
          /\ currentUser' = NoUser
          /\ published' # published => published' = NoUser
      ]_vars

\* logout() returns in this step
LogoutReturns == logoutPc # "idle" /\ logoutPc' = "idle"

\* C4: whenever logout() returns, whether signOut succeeded or failed, it
\* reports success, the auth header is cleared, the warmup pinger and the
\* refresh timer are stopped, currentUser is null and null has been published.
C4_LogoutInfallible ==
    [][ LogoutReturns =>
          /\ logoutPc = "signedOut"
          /\ ~authHeader'
          /\ ~warmupInterval'
          /\ ~tokenRefreshInterval'
          /\ currentUser' = NoUser
          /\ published' = NoUser
      ]_vars

\* reconciliation t gives up in this step: its last /auth/me attempt failed
GivesUp(t) ==
    /\ task[t].pc = "authMe"
    /\ task[t].syncAttempts = SyncAttempts - 1
    /\ task'[t].pc = "idle"
    /\ currentUser' # BackendData(task[t].fbu)

\* C10: when the last profile fetch of a reconciliation fails while the
\* session still holds the identity-provider data (no backend profile was
\* adopted and the session was not reset meanwhile), the session stays
\* authenticated in syncFailed: currentUser keeps the identity-provider
\* fields, has _syncedWithBackend = false, _syncPending = false and a
\* _syncError, that state is published, the principal and the auth header are
\* untouched, and login goes on to return success.
C10_SyncFailedStaysAuthenticated ==
    [][ \A t \in Tasks :
          (GivesUp(t) /\ currentUser.kind = "idp") =>
             /\ currentUser' = [kind |-> "idp", synced |-> FALSE, pending |-> FALSE,
                                syncError |-> TRUE, fb |-> currentUser.fb]
             /\ published' = currentUser'
             /\ fbUser' = fbUser
             /\ authHeader' = authHeader
             /\ (task[t].origin = "login" => loginPc' = "getIdToken")
      ]_vars

\* login's reconciliation gave up and left a syncFailed, authenticated session
C10_Witness ==
    /\ fbUser = "u1"
    /\ loginPc = "getIdToken"
    /\ \A t \in Tasks : task[t].pc = "idle"
    /\ currentUser = SyncFailedData(FirebaseData("u1"))
    /\ published = currentUser

\* the invocation t of handleSuccessfulAuth started by login hands a settled
\* state (synced or syncFailed) to the listeners in this step
LoginSettles(t) ==
    /\ task[t].origin = "login"
    /\ task[t].pc = "authMe"
    /\ task'[t].pc = "idle"
    /\ loginPc' = "getIdToken"

\* C11: after a successful sign-in, login first hands the listeners a syncing
\* state built from the identity-provider data alone (not synced, sync
\* pending), and hands them synced or syncFailed only afterwards: the step
\* that publishes the settled state is taken by an invocation that has
\* already published its syncing state.
C11_SyncingPublishedFirst ==
    [][ \A t \in Tasks :
          /\ (task[t].origin = "login" /\ task[t].pc = "getIdToken"
                 /\ task'[t].pc = "authMe") =>
                published' = [kind |-> "idp", synced |-> FALSE, pending |-> TRUE,
                              syncError |-> FALSE, fb |-> task[t].fbu]
          /\ LoginSettles(t) =>
                /\ task[t].announced
                /\ ~published'.pending
                /\ published'.synced \/ published'.syncError
      ]_vars

\* login's invocation published syncing, then synced, and returned to login
C11_Witness ==
    /\ loginPc = "getIdToken"
    /\ published = BackendData("u1")
    /\ currentUser = published
    /\ \A t \in Tasks : task[t].pc = "idle"

\* C15: with localStorage throwing, a login with valid credentials still
\* signs in and goes on to an authenticated in-memory session, and a page
\* load ends initialized and unauthenticated, without an uncaught exception.
C15_LoginSurvivesStorageFailure ==
    /\ [](storage # "ok" /\ initPc = "done" =>
             authInitialized /\ currentUser = NoUser /\ fbUser = "none")
    /\ [][ (storage # "ok" /\ credentialsValid
              /\ loginPc = "ensureInitialized" /\ loginPc' # loginPc) =>
             (loginPc' = "handleSuccessfulAuth" /\ fbUser' \in Uids)
        ]_vars

\* login or register returns { success: false, error } from its catch before
\* handleSuccessfulAuth was started
ApplicationErrorReturn ==
    /\ loginPc \in {"ensureInitialized", "register:ensureInitialized",
                    "register:sendEmailVerification"}
    /\ loginPc' = "idle"

\* C18: a login or register that fails with an application error returns an
\* error value and has left the session as it found it: the call itself has
\* not changed the identity provider's principal nor caused a notification,
\* and its returning step changes neither currentUser, the Authorization
\* header nor what was published.  (register fails after the provider has
\* already signed the new account in.)
C18_FailedSignInLeavesSession ==
    [][ ApplicationErrorReturn
          => /\ ~signInChanged
             /\ UNCHANGED <<fbUser, currentUser, authHeader, published>> ]_vars

\* logout() has returned success, every auth-state notification has been
\* delivered, and no sign-in has been made since
LogoutProcessed == loggedOut /\ authEvents = << >> /\ logoutPc = "idle"

\* C21: in production the warmup pinger runs only while a session is
\* authenticated: once logout has been processed it is not running in any
\* state where the session is unauthenticated (currentUser null).
C21_WarmupOnlyWhileAuthenticated ==
    (prod /\ LogoutProcessed /\ currentUser = NoUser) => ~warmupInterval

\* the transitions of the session state the specification rules out by name
ExcludedTransitions ==
    { <<"synced", "syncing">>, <<"synced", "syncFailed">>,
      <<"syncFailed", "synced">> }

\* C22: across login, logout, refresh ticks and auth-state events the session
\* state changes only along unauthenticated -> syncing -> {synced,
\* syncFailed} -> unauthenticated and syncFailed -> syncing; in particular it
\* never goes synced -> syncing, synced -> syncFailed or syncFailed -> synced
\* in one step.
C22_SyncStateTransitions ==
    [][ <<syncState(currentUser), syncState(currentUser')>> \notin ExcludedTransitions
      ]_vars

\* C23: the sync-error diagnostic (_syncError) is present on the session only
\* when its state is syncFailed: never on a session that is unauthenticated,
\* syncing (_syncPending) or synced (_syncedWithBackend).
C23_SyncErrorOnlyWhenFailed ==
    currentUser.syncError => syncState(currentUser) = "syncFailed"

\* a reconciliation gave up after another one had stored the backend
\* profile: the diagnostic is on that profile
C23_Witness ==
    /\ currentUser.syncError
    /\ currentUser.kind = "backend"

\* the invocation t of handleSuccessfulAuth starts its next profile fetch in
\* this step, after task[t].syncAttempts failed ones
NextAttempt(t) == task[t].pc = "retryDelay" /\ task'[t].pc = "authMe"

\* C24: a reconciliation makes at most the bounded number of profile-fetch
\* attempts, each with a larger timeout than the one before, and settles at
\* the first success or after the last failure.
C24_BoundedAttemptsGrowingTimeout ==
    /\ [](\A t \in Tasks : task[t].syncAttempts < SyncAttempts)
    /\ [][ \A t \in Tasks :
             NextAttempt(t) =>
                AttemptTimeout(task[t].syncAttempts + 1) > AttemptTimeout(task[t].syncAttempts)
         ]_vars

\* C25: a periodic refresh that obtains its token sets the Authorization
\* header from it and, when the session is syncFailed, re-attempts the
\* profile fetch; when that fetch succeeds the session becomes synced and the
\* new state is handed to the listeners.
C25_RefreshRetriesFailedSync ==
    [][ /\ (RefreshGetIdToken(TRUE) /\ fbUser # "none")
             => /\ authHeader'
                /\ syncState(currentUser) = "syncFailed" => tickPc' = "authMe"
        /\ (RefreshAuthMe(TRUE) /\ syncState(currentUser) = "syncFailed")
             => /\ syncState(currentUser') = "synced"
                /\ published' = currentUser'
      ]_vars

\* the refresh tick has its token and is fetching the profile again for a
\* session that is syncFailed
C25_Witness ==
    /\ tickPc = "authMe"
    /\ authHeader
    /\ fbUser = "u1"
    /\ syncState(currentUser) = "syncFailed"

\* C26: initialization runs once and always completes: authInitialized
\* eventually becomes true, also when setting the persistence or handling the
\* redirect result fails, and never reverts to false; initializeAuth does not
\* start over once it has finished.
C26_InitializationCompletesOnce ==
    /\ <>authInitialized
    /\ [][ (authInitialized => authInitialized')
           /\ (initPc = "done" => initPc' = "done") ]_vars

\* initializeAuth has finished through its catch (localStorage throws) while
\* a login was waiting in ensureInitialized
C26_Witness ==
    /\ authInitialized
    /\ initPc = "done"
    /\ storage = "disabled"
    /\ loginPc = "ensureInitialized"

\* the provider's notification for the restored user has been delivered
\* while initializeAuth had not finished (authInitialized never reverts)
EarlyEvent ==
    /\ ~authInitialized
    /\ fbUser = "u1"
    /\ lastNotifiedUid = "u1"
    /\ authEvents = << >>

\* something other than the startup acts on the session: a login or logout
\* is running, a redirect sign-in is being reconciled, a further notification
\* is queued or the user is no longer signed in at the provider
Interfered ==
    \/ loginPc # "idle"
    \/ logoutPc # "idle"
    \/ initPc = "handleSuccessfulAuth"
    \/ authEvents # << >>
    \/ fbUser # "u1"

\* C27: when the auth-state notification for a restored user is delivered
\* before initialization has completed, the session still comes to reflect
\* that user: currentUser becomes non-null, without a login or a further
\* notification.
C27_EarlyEventStillReflected ==
    EarlyEvent ~> (currentUser # NoUser \/ Interfered)

\* C28: when two reconciliations for the same user run concurrently, a
\* failure that finishes in one after the other has published synced with the
\* backend profile leaves the session synced and attaches no sync error to
\* the profile.
C28_LateFailureKeepsSynced ==
    [][ \A t \in Tasks :
          (GivesUp(t) /\ syncState(currentUser) = "synced"
                      /\ currentUser.fb = task[t].fbu)
             => /\ syncState(currentUser') = "synced"
                /\ ~currentUser'.syncError
      ]_vars

\* C29: after logout() has returned success the default Authorization header
\* stays absent until the next sign-in: a refresh tick or a reconciliation
\* whose token fetch was in flight when logout ran does not set it again.
C29_NoHeaderAfterLogout ==
    loggedOut => ~authHeader

-----------------------------------------------------------------------------
(* Claims about the request gateway (SpecGateway) *)

Refreshing == {r \in Reqs : reqs[r].pc = "refreshing"}

\* C3: at most one token refresh is in flight at any time: requests that
\* fail with 401 while a refresh is pending do not start their own.
C3_SingleFlightRefresh == Cardinality(Refreshing) <= 1

\* request r is rejected in this step because the refresh failed or no
\* refresh token was stored
ForcedLogout(r) ==
    /\ reqs[r].pc \in {"sent", "refreshing"}
    /\ reqs'[r].pc = "rejected"
    /\ reqs'[r].err \in {"refreshError", "noRefreshToken"}

\* C5: when a request got 401 and the refresh failed, or no refresh token
\* was stored, the caller gets an error, the access token, the refresh token
\* and the cached user are all removed, the page is sent to /login, and the
\* original request was sent once only.
C5_RefreshFailureClearsSession ==
    [][ \A r \in Reqs :
          ForcedLogout(r) =>
             /\ store' = [access |-> 0, refresh |-> 0, user |-> "none"]
             /\ location' = "/login"
             /\ reqs'[r].sends = 1
             /\ reqs'[r].newTok = 0
      ]_vars

\* a request was rejected after its refresh failed, with everything cleared
C5_Witness ==
    \E r \in Reqs :
        /\ reqs[r].pc = "rejected"
        /\ reqs[r].err = "refreshError"
        /\ reqs[r].refreshes = 1
        /\ store = [access |-> 0, refresh |-> 0, user |-> "none"]
        /\ location = "/login"

\* the refresh of request r succeeds in this step
RefreshSucceeds(r) == reqs[r].pc = "refreshing" /\ reqs'[r].pc # "refreshing"

\* C6: when the refresh after a 401 succeeds, the new access token is
\* stored, the original request is sent again exactly once and carries the
\* new token, and the answer to that second sending settles the call: a 2xx
\* answer resolves it.
C6_RefreshThenRetryOnce ==
    /\ [](\A r \in Reqs :
            /\ reqs[r].newTok # 0 => reqs[r].sends = 2
            /\ (reqs[r].newTok # 0 /\ reqs[r].pc = "sent") => reqs[r].hdr = reqs[r].newTok)
    /\ [][ \A r \in Reqs :
             /\ RefreshSucceeds(r) /\ reqs'[r].pc # "rejected" =>
                  /\ reqs'[r].pc = "sent"
                  /\ reqs'[r].newTok \in Tokens
                  /\ store'.access = reqs'[r].newTok
                  /\ reqs'[r].hdr = reqs'[r].newTok
                  /\ reqs'[r].sends = reqs[r].sends + 1
             /\ (reqs[r].pc = "sent" /\ reqs[r].sends = 2 /\ reqs'[r] # reqs[r]) =>
                  reqs'[r].pc \in {"resolved", "rejected"}
         ]_vars

\* a request answered 401 was refreshed, sent again with the new token and resolved
C6_Witness ==
    \E r \in Reqs :
        /\ reqs[r].pc = "resolved"
        /\ reqs[r].sends = 2
        /\ reqs[r].newTok # 0
        /\ reqs[r].hdr = reqs[r].newTok

\* C7: one request runs at most one refresh-and-retry cycle: it starts at
\* most one refresh and is sent at most twice, so a 401 answer to the retried
\* request is rejected without another refresh.
C7_AtMostOneRefreshPerRequest ==
    \A r \in Reqs :
        /\ reqs[r].refreshes <= 1
        /\ reqs[r].sends <= 2
        /\ reqs[r].pc = "refreshing" => reqs[r].sends = 1

\* the retried request was answered 401 again and failed to the caller
C7_Witness ==
    \E r \in Reqs :
        /\ reqs[r].pc = "rejected"
        /\ reqs[r].err = "http401"
        /\ reqs[r].refreshes = 1
        /\ reqs[r].sends = 2

\* no credential is stored
-----------------------------------------------------------------------------
(* Claims about the gateway with the AuthProvider (SpecProvider) *)

NoCredentials == store = [access |-> 0, refresh |-> 0, user |-> "none"]

\* C17: once logout or an unrecoverable refresh failure has emptied the
\* credential store, it stays empty until a login succeeds: no token refresh
\* and no startup verification that was in flight puts a credential back.
C17_NoCredentialReappears ==
    [][ (NoCredentials /\ ~NoCredentials') => \E tk \in Tokens : APLoginOk(tk) ]_vars

\* the startup verification (initAuth's getCurrentUser) is answered in this
\* step
VerificationAnswered == ap.init = "verifying" /\ ap'.init = "done"

\* C30: a login that succeeded while the startup verification was in flight
\* is not undone by it: when the verification then fails, the credentials the
\* login stored stay in the store and the user stays set.
C30_LoginSurvivesStartupCheck ==
    [][ (VerificationAnswered /\ ap.loginDuringInit
            /\ getAccessToken(store) # 0 /\ store.user # "none")
          => /\ getAccessToken(store') = getAccessToken(store)
             /\ getRefreshToken(store') = getRefreshToken(store)
             /\ store'.user # "none"
             /\ ap'.user # "none"
      ]_vars

-----------------------------------------------------------------------------
(* Claims about the retry interceptor (SpecRetry) *)

StrictlyIncreasing(seq) == \A i \in 1..(Len(seq) - 1) : seq[i] < seq[i + 1]

\* the call was rejected and every one of its attempts timed out
TimedOutThroughout(c) == calls[c].pc = "rejected" /\ calls[c].onlyTimeouts

Transient(e) == ~e.response \/ e.class = "5xx"

\* C9: a failed attempt is followed by a retry only when the failure was
\* transient and fewer than MAX_RETRIES retries had been made; a call
\* answered with a 4xx is rejected without a retry.
C9_RetryOnlyTransient ==
    \A c \in Calls :
        /\ calls[c].retry <= MAX_RETRIES
        /\ calls[c].attempts <= calls[c].retry + 1
        /\ (calls[c].pc # "rejected" /\ calls[c].lastErr # NoError) =>
               (Transient(calls[c].lastErr) /\ calls[c].retry >= 1)
        /\ calls[c].lastErr.class = "4xx" => calls[c].pc = "rejected"

\* one call waits for a retry after a timeout, another was answered 4xx on
\* its first retry-free attempt and was rejected
C9_Witness ==
    \E c, d \in Calls :
        /\ calls[c].pc = "backoff"
        /\ calls[c].lastErr = TimeoutError
        /\ calls[d].pc = "rejected"
        /\ calls[d].lastErr.class = "4xx"
        /\ calls[d].attempts = 1

-----------------------------------------------------------------------------
(* Claims about the listener registry (SpecListeners) *)

Registered(ls) == {ls[i] : i \in 1..Len(ls)}

\* listener l is subscribed in this step
Subscribes(l) ==
    /\ Len(authStateListeners') = Len(authStateListeners) + 1
    /\ authStateListeners'[Len(authStateListeners')] = l

\* C12: onAuthStateChange calls the new listener before it returns, with the
\* session as it is at that moment (null, syncing, synced or syncFailed),
\* and without any state change or notification taking place.
C12_ReplayOnSubscribe ==
    [][ \A l \in Listeners :
          Subscribes(l) =>
             /\ inbox'[l].val = currentUser
             /\ currentUser' = currentUser
             /\ pubSeq' = pubSeq
             /\ \A k \in Listeners \ {l} : inbox'[k] = inbox[k]
      ]_vars

\* a listener that subscribed after the session was published as synced holds
\* the synced state, though no notification ever reached it
C12_Witness ==
    \E l \in Listeners :
        /\ pubSeq >= 1
        /\ currentUser = BackendData("u1")
        /\ l \in Registered(authStateListeners)
        /\ inbox[l] = [val |-> BackendData("u1"), seq |-> 0]

\* a notification takes place in this step
Notifies == pubSeq' = pubSeq + 1

\* C13: when a listener throws during a notification, every other listener
\* registered at that moment is still called with the update.
C13_ThrowingListenerIsolated ==
    [][ Notifies =>
          \A l \in Registered(authStateListeners) :
              inbox'[l] = [val |-> currentUser', seq |-> pubSeq']
      ]_vars

\* C14: calling an unsubscribe function, again or from inside a callback
\* during a notification, does not throw and removes no listener but its
\* own; in a notification in which no callback throws every listener
\* registered at its start and not unsubscribed is called with the update;
\* a listener that is not registered when a notification starts is not
\* called by it.
C14_UnsubscribeIsSafe ==
    [][ /\ Registered(authStateListeners) \ Registered(authStateListeners')
              \subseteq lastUnsub'
        /\ (lastUnsub' # {} /\ ~Notifies) => ~listenerThrew'
        /\ \A l \in Listeners :
              (l \in Registered(authStateListeners) /\ l \notin lastUnsub')
                  => Len(SelectSeq(authStateListeners', LAMBDA x : x = l))
                       >= Len(SelectSeq(authStateListeners, LAMBDA x : x = l))
        /\ (Notifies /\ ~listenerThrew') =>
              \A l \in Registered(authStateListeners) \ lastUnsub' :
                  inbox'[l] = [val |-> currentUser', seq |-> pubSeq']
        /\ Notifies =>
              \A l \in Listeners \ Registered(authStateListeners) :
                  inbox'[l] = inbox[l]
      ]_vars

\* a callback called its own unsubscribe function during the second
\* notification, and the other listener still got that update
C14_Witness ==
    \E l \in Listeners, k \in Listeners :
        /\ l # k
        /\ pubSeq = 2
        /\ ~listenerThrew
        /\ l \in lastUnsub
        /\ l \notin Registered(authStateListeners)
        /\ inbox[l].seq = 2
        /\ k \in Registered(authStateListeners)
        /\ inbox[k] = [val |-> currentUser, seq |-> 2]

-----------------------------------------------------------------------------
(* Claims about the warmup pinger (SpecWarmup) *)

\* this step is a call of op
IsCall(op) == warmupOp'.n = warmupOp.n + 1 /\ warmupOp'.op = op

\* this step issues a liveness probe
ProbeIssued == probes' = probes + 1

\* C19: startWarmup called while the pinger is running has no effect: no
\* timer is added and no probe is issued by the call, so at most one
\* recurring timer exists at any time.
C19_StartIdempotent ==
    /\ [](timers.intervals <= 1)
    /\ [][ (IsCall("start") /\ warmupInterval)
             => UNCHANGED <<warmupInterval, timers, probes>> ]_vars

\* startWarmup has been called while the pinger was running, its first
\* delayed probe not yet issued
C19_Witness ==
    /\ warmupOp.op = "start"
    /\ warmupOp.running
    /\ warmupInterval
    /\ timers = [timeouts |-> 1, intervals |-> 1]

\* C20: after stopWarmup has returned no probe is issued until the next
\* startWarmup (the recurring timer and every pending delayed probe are
\* cancelled), and stopWarmup called when the pinger is not running changes
\* nothing.
C20_StopCancelsEveryProbe ==
    /\ [][ ProbeIssued => warmupOp.op # "stop" ]_vars
    /\ [][ (IsCall("stop") /\ ~warmupInterval)
             => UNCHANGED <<warmupInterval, timers, probes>> ]_vars

-----------------------------------------------------------------------------
(* Claims about tokenManager over a failing localStorage (SpecStore) *)

\* C16: a tokenManager operation never throws to its caller: when
\* localStorage throws, a read returns null and a save or a clear does
\* nothing.
C16_StoreFailsSoft ==
    /\ ~storeOp.threw
    /\ (GetItemThrows /\ storeOp.op \in {"getAccessToken", "getRefreshToken", "getUser"})
           => storeOp.ret = << >>

====
